---------------------------- MODULE Spec2Model ----------------------------
(***************************************************************************)
(* SSH session core of iTermX (src-tauri/src/commands/ssh/core.rs).        *)
(*                                                                         *)
(* Two state machines are modelled:                                        *)
(*   - one call of establish_base_session_async, made directly or through  *)
(*     create_shell_channel / create_monitor_session_async /               *)
(*     create_sftp_session_async, against a server whose answers are an    *)
(*     arbitrary but fixed choice (SessionSpec);                           *)
(*   - the read loops started by spawn_shell_reader, one task per id,      *)
(*     consuming the events their channels deliver and emitting to the     *)
(*     shared notification sink (ReaderSpec).                              *)
(***************************************************************************)
EXTENDS Integers, Sequences, FiniteSets, TLC

VARIABLES
    config,      \* SshConfig fields read by the code: private_key, password
    decode_ok,   \* whether decode_secret_key accepts (private_key, passphrase)
    server,      \* how the remote end answers each request of this call
    caller,      \* the public function that was called
    pc,          \* suspension point the call is at
    calls,       \* library calls made so far, oldest first, with their answers
    est_result,  \* Result of establish_base_session_async
    result,      \* value returned by the called function
    chan,        \* id -> events the transport has delivered on the channel
    closed,      \* id -> the channel's event source has been closed
    rd,          \* id -> number of events the read loop has taken
    running,     \* id -> the read loop task has not finished
    sink         \* emit calls made on the AppHandle, oldest first

svars == <<config, decode_ok, server, caller, pc, calls, est_result, result>>
rvars == <<chan, closed, rd, running, sink>>
vars  == <<config, decode_ok, server, caller, pc, calls, est_result, result,
           chan, closed, rd, running, sink>>

--------------------------------------------------------------------------
(* Bounds of the model *)

MaxKeyLen == 2
MaxEvents == 3

--------------------------------------------------------------------------
(* Option<T> is a sequence of length 0 (None) or 1 (Some(x)) *)

None == <<>>
Some(x) == <<x>>
IsSome(o) == Len(o) = 1
Unwrap(o) == o[1]

(* Strings whose content the code inspects are sequences of characters *)
KeyChars == {" ", "k"}
Whitespace == {" "}

RECURSIVE SeqsUpTo(_, _)
SeqsUpTo(S, n) ==
    IF n = 0 THEN {<<>>}
    ELSE LET shorter == SeqsUpTo(S, n - 1)
         IN  shorter \cup {Append(s, c) : s \in {t \in shorter : Len(t) = n - 1}, c \in S}

RECURSIVE TrimStart(_)
TrimStart(s) ==
    IF s # <<>> /\ Head(s) \in Whitespace THEN TrimStart(Tail(s)) ELSE s

RECURSIVE TrimEnd(_)
TrimEnd(s) ==
    IF s # <<>> /\ s[Len(s)] \in Whitespace
    THEN TrimEnd(SubSeq(s, 1, Len(s) - 1)) ELSE s

(* str::trim *)
Trim(s) == TrimEnd(TrimStart(s))

--------------------------------------------------------------------------
(* Results.  Errors are Strings built by format!: a fixed prefix and the   *)
(* cause's own text.                                                       *)

Pending == [status |-> "Pending", prefix |-> "", cause |-> ""]
Ok      == [status |-> "Ok", prefix |-> "", cause |-> ""]
Err(prefix, cause) == [status |-> "Err", prefix |-> prefix, cause |-> cause]
Absent  == [status |-> "None", prefix |-> "", cause |-> ""]

ConnectionError == Err("Connection Error: ", "russh::Error")
InvalidKey      == Err("Invalid Private Key: ", "russh_keys::Error")
TransportError  == Err("", "russh::Error")
AuthFailed      == Err("Auth failed: ", "Invalid credentials")
ChannelOpenError  == Err("Channel Open Error: ", "russh::Error")
PtyRequestError   == Err("PTY Request Error: ", "russh::Error")
ShellRequestError == Err("Shell Request Error: ", "russh::Error")

ResultOk_KeepsError(r) == r

(* Result::ok *)
ResultOk(r) == IF r.status = "Ok" THEN Ok ELSE Absent

Callers == {"establish_base_session_async", "create_shell_channel",
            "create_monitor_session_async", "create_sftp_session_async"}

AuthAnswers == {"accepted", "rejected", "error"}

Call(by, req, ans) == [by |-> by, req |-> req, ans |-> ans]

Requests(req) == {i \in 1..Len(calls) : calls[i].req = req}
Answer(req) == calls[CHOOSE i \in Requests(req) : TRUE].ans

--------------------------------------------------------------------------
(* establish_base_session_async *)

(* a control transfer: the next suspension point and, when the function    *)
(* returns there, its Result                                               *)
Goto(label) == [pc |-> label, res |-> Pending]
Return(res) == [pc |-> "est_returned", res |-> res]

AfterConnect_CarriesOn(connected) == Goto("key")

(* client::connect(...).await.map_err(...)? *)
AfterConnect(connected) ==
    IF connected THEN Goto("key") ELSE Return(ConnectionError)

KeyAuthAttempted_Untrimmed(cfg) ==
    IsSome(cfg.private_key) /\ Unwrap(cfg.private_key) # <<>>

(* if let Some(key_content) = &config.private_key                          *)
(*     { if !key_content.trim().is_empty() { ... } }                       *)
KeyAuthAttempted(cfg) ==
    IsSome(cfg.private_key) /\ Trim(Unwrap(cfg.private_key)) # <<>>

AfterDecode_FallsThrough(parsed) ==
    IF parsed THEN Goto("publickey") ELSE Goto("password")

(* decode_secret_key(...).map_err(...)? *)
AfterDecode(parsed) ==
    IF parsed THEN Goto("publickey") ELSE Return(InvalidKey)

AfterPublickey_NoFallback(ans) ==
    CASE ans = "accepted" -> Return(Ok)
      [] ans = "rejected" -> Return(AuthFailed)
      [] ans = "error"    -> Return(TransportError)

AfterPublickey_TriesPasswordToo(ans) ==
    CASE ans = "error" -> Return(TransportError)
      [] OTHER -> Goto("password")

AfterPublickey_ErrorFallsBack(ans) ==
    CASE ans = "accepted" -> Return(Ok)
      [] OTHER -> Goto("password")

(* if session.authenticate_publickey(..).await.map_err(..)? { return Ok } *)
AfterPublickey(ans) ==
    CASE ans = "accepted" -> Return(Ok)
      [] ans = "rejected" -> Goto("password")
      [] ans = "error"    -> Return(TransportError)

(* if let Some(pwd) = &config.password *)
PasswordAuthAttempted(cfg) == IsSome(cfg.password)

AfterPassword_IgnoresAnswer(ans) ==
    CASE ans = "error" -> Return(TransportError)
      [] OTHER -> Return(Ok)

AfterPassword_WrongError(ans) ==
    CASE ans = "accepted" -> Return(Ok)
      [] OTHER -> Return(TransportError)

(* if session.authenticate_password(..).await.map_err(..)? { return Ok }   *)
(* Err("Auth failed: Invalid credentials")                                 *)
AfterPassword(ans) ==
    CASE ans = "accepted" -> Return(Ok)
      [] ans = "rejected" -> Return(AuthFailed)
      [] ans = "error"    -> Return(TransportError)

Transfer(t) ==
    /\ pc' = t.pc
    /\ est_result' = t.res

Issue(req, ans) ==
    calls' = Append(calls, Call("establish_base_session_async", req, ans))

Resolve(req, ans) ==
    calls' = [calls EXCEPT ![Len(calls)].ans = ans]

Connect ==
    /\ pc = "connect"
    /\ Issue("connect", IF server.connect THEN "ok" ELSE "error")
    /\ Transfer(AfterConnect(server.connect))
    /\ UNCHANGED <<config, decode_ok, server, caller, result, rvars>>

KeySkipped ==
    /\ pc = "key"
    /\ ~KeyAuthAttempted(config)
    /\ Transfer(Goto("password"))
    /\ UNCHANGED <<config, decode_ok, server, caller, calls, result, rvars>>

DecodeKey ==
    /\ pc = "key"
    /\ KeyAuthAttempted(config)
    /\ Issue("decode_secret_key", IF decode_ok THEN "ok" ELSE "error")
    /\ Transfer(AfterDecode(decode_ok))
    /\ UNCHANGED <<config, decode_ok, server, caller, result, rvars>>

PublickeyRequest ==
    /\ pc = "publickey"
    /\ Issue("authenticate_publickey", "pending")
    /\ Transfer(Goto("await_publickey"))
    /\ UNCHANGED <<config, decode_ok, server, caller, result, rvars>>

PublickeyResponse ==
    /\ pc = "await_publickey"
    /\ Resolve("authenticate_publickey", server.publickey)
    /\ Transfer(AfterPublickey(server.publickey))
    /\ UNCHANGED <<config, decode_ok, server, caller, result, rvars>>

PasswordSkipped ==
    /\ pc = "password"
    /\ ~PasswordAuthAttempted(config)
    /\ Transfer(Return(AuthFailed))
    /\ UNCHANGED <<config, decode_ok, server, caller, calls, result, rvars>>

PasswordRequest ==
    /\ pc = "password"
    /\ PasswordAuthAttempted(config)
    /\ Issue("authenticate_password", "pending")
    /\ Transfer(Goto("await_password"))
    /\ UNCHANGED <<config, decode_ok, server, caller, result, rvars>>

PasswordResponse ==
    /\ pc = "await_password"
    /\ Resolve("authenticate_password", server.password)
    /\ Transfer(AfterPassword(server.password))
    /\ UNCHANGED <<config, decode_ok, server, caller, result, rvars>>

--------------------------------------------------------------------------
(* The callers of establish_base_session_async *)

ShellGoto(label) == [pc |-> label, res |-> Pending]
ShellReturn(res) == [pc |-> "done", res |-> res]

(* the value the called function makes of establish's Result:              *)
(*   create_shell_channel:            establish(config).await?             *)
(*   create_monitor/sftp_session:     establish(config).await.ok()         *)
AfterEstablish(who, res) ==
    CASE who = "establish_base_session_async" -> ShellReturn(res)
      [] who = "create_shell_channel" ->
            IF res.status = "Ok" THEN ShellGoto("channel_open") ELSE ShellReturn(res)
      [] who \in {"create_monitor_session_async", "create_sftp_session_async"} ->
            ShellReturn(ResultOk(res))

(* session.channel_open_session().await.map_err(..)? *)
AfterChannelOpen(opened) ==
    IF opened THEN ShellGoto("request_pty") ELSE ShellReturn(ChannelOpenError)

AfterRequestPty_Unchecked(granted) == ShellGoto("request_shell")

(* channel.request_pty(..).await.map_err(..)? *)
AfterRequestPty(granted) ==
    IF granted THEN ShellGoto("request_shell") ELSE ShellReturn(PtyRequestError)

AfterRequestShell_Mislabelled(started) ==
    IF started THEN ShellReturn(Ok) ELSE ShellReturn(PtyRequestError)

(* channel.request_shell(true).await.map_err(..)?; Ok(channel) *)
AfterRequestShell(started) ==
    IF started THEN ShellReturn(Ok) ELSE ShellReturn(ShellRequestError)

ShellTransfer(t) ==
    /\ pc' = t.pc
    /\ result' = t.res

ShellIssue(req, ok) ==
    calls' = Append(calls, Call("create_shell_channel", req,
                                IF ok THEN "ok" ELSE "error"))

EstablishReturned ==
    /\ pc = "est_returned"
    /\ ShellTransfer(AfterEstablish(caller, est_result))
    /\ UNCHANGED <<config, decode_ok, server, caller, calls, est_result, rvars>>

ChannelOpen ==
    /\ pc = "channel_open"
    /\ ShellIssue("channel_open_session", server.channel_open)
    /\ ShellTransfer(AfterChannelOpen(server.channel_open))
    /\ UNCHANGED <<config, decode_ok, server, caller, est_result, rvars>>

RequestPty ==
    /\ pc = "request_pty"
    /\ ShellIssue("request_pty", server.pty)
    /\ ShellTransfer(AfterRequestPty(server.pty))
    /\ UNCHANGED <<config, decode_ok, server, caller, est_result, rvars>>

RequestShell ==
    /\ pc = "request_shell"
    /\ ShellIssue("request_shell", server.shell)
    /\ ShellTransfer(AfterRequestShell(server.shell))
    /\ UNCHANGED <<config, decode_ok, server, caller, est_result, rvars>>

--------------------------------------------------------------------------
(* spawn_shell_reader *)

Ids == {"A", "B"}

(* Msg variants the channel delivers; Close stands for every variant the   *)
(* loop's `_ => {}` arm takes                                              *)
Data(bytes) == [kind |-> "Data", data |-> bytes]
Eof         == [kind |-> "Eof", data |-> <<>>]
Close       == [kind |-> "Close", data |-> <<>>]

(* U+FFFD REPLACEMENT CHARACTER *)
REPLACEMENT == 65533

IsContinuation(b) == b \in 128..191

(* String::from_utf8_lossy on byte strings of one- and two-byte forms:     *)
(* a text is the sequence of its code points                               *)
RECURSIVE from_utf8_lossy(_)
from_utf8_lossy(bytes) ==
    IF bytes = <<>> THEN <<>>
    ELSE LET b == Head(bytes)
         IN  IF b < 128
             THEN <<b>> \o from_utf8_lossy(Tail(bytes))
             ELSE IF b \in 194..223 /\ Len(bytes) >= 2 /\ IsContinuation(bytes[2])
             THEN <<(b - 192) * 64 + (bytes[2] - 128)>>
                      \o from_utf8_lossy(Tail(Tail(bytes)))
             ELSE <<REPLACEMENT>> \o from_utf8_lossy(Tail(bytes))

(* format!("term-data-{}", id), format!("term-exit-{}", id) *)
DataEvent_UntaggedId(id) == <<"term-data-", "A">>
DataEvent(id) == <<"term-data-", id>>
ExitEvent(id) == <<"term-exit-", id>>

Emit(name, payload) == [name |-> name, payload |-> payload]

OnMsg_EofIgnored(id, msg) ==
    CASE msg.kind = "Data" ->
            [emit |-> <<[name |-> <<"term-data-", id>>,
                         payload |-> <<from_utf8_lossy(msg.data)>>]>>,
             break |-> FALSE]
      [] OTHER -> [emit |-> <<>>, break |-> FALSE]

OnMsg_EofNotified(id, msg) ==
    CASE msg.kind = "Data" ->
            [emit |-> <<[name |-> <<"term-data-", id>>,
                         payload |-> <<from_utf8_lossy(msg.data)>>]>>,
             break |-> FALSE]
      [] msg.kind = "Eof" ->
            [emit |-> <<[name |-> <<"term-eof-", id>>, payload |-> <<>>]>>,
             break |-> TRUE]
      [] OTHER -> [emit |-> <<>>, break |-> FALSE]

OnMsg_StrictUtf8(id, msg) ==
    CASE msg.kind = "Data" ->
            LET text == from_utf8_lossy(msg.data)
            IN  IF \E i \in 1..Len(text) : text[i] = 65533
                THEN [emit |-> <<>>, break |-> TRUE]
                ELSE [emit |-> <<[name |-> <<"term-data-", id>>,
                                  payload |-> <<text>>]>>,
                      break |-> FALSE]
      [] msg.kind = "Eof" -> [emit |-> <<>>, break |-> TRUE]
      [] OTHER -> [emit |-> <<>>, break |-> FALSE]

OnMsg_CloseEndsLoop(id, msg) ==
    CASE msg.kind = "Data" ->
            [emit |-> <<[name |-> <<"term-data-", id>>,
                         payload |-> <<from_utf8_lossy(msg.data)>>]>>,
             break |-> FALSE]
      [] OTHER -> [emit |-> <<>>, break |-> TRUE]

AfterLoop_Silent(id) == <<>>

(* one iteration of `while let Some(msg) = channel.wait().await { match }`: *)
(* the notifications it emits and whether it leaves the loop               *)
OnMsg(id, msg) ==
    CASE msg.kind = "Data" ->
            [emit |-> <<Emit(DataEvent(id), Some(from_utf8_lossy(msg.data)))>>,
             break |-> FALSE]
      [] msg.kind = "Eof" -> [emit |-> <<>>, break |-> TRUE]
      [] OTHER -> [emit |-> <<>>, break |-> FALSE]

(* after the loop: app.emit(&format!("term-exit-{}", id), ()) *)
AfterLoop(id) == <<Emit(ExitEvent(id), None)>>

(* what one scheduling of the task emits, from channel.wait() returning    *)
(* `next` to its next suspension (or its end)                              *)
Iteration(id, next) ==
    IF IsSome(next)
    THEN LET h == OnMsg(id, Unwrap(next))
         IN  [emit |-> h.emit \o (IF h.break THEN AfterLoop(id) ELSE <<>>),
              done |-> h.break]
    ELSE [emit |-> AfterLoop(id), done |-> TRUE]

LoopEnds_OnEmitError(it, oks) ==
    it.done \/ \E i \in 1..Len(oks) : ~oks[i]

(* `let _ = app.emit(..)`: whether the sink took an emit has no part in    *)
(* whether the task goes on                                                *)
LoopEnds(it, oks) == it.done

(* app.emit returns a Result which the loop drops (`let _ =`): `oks` says  *)
(* for each emit whether the sink took it                                  *)
Emitted(id, emits, oks) ==
    [i \in 1..Len(emits) |->
        [by |-> id, name |-> emits[i].name, payload |-> emits[i].payload,
         ok |-> oks[i]]]

Delivered == Len(chan["A"]) + Len(chan["B"])

(* the bytes Data events carry: "a", and "é" followed by an invalid byte *)
Payloads == {<<97>>, <<195, 169, 255>>}

Events == {Data(p) : p \in Payloads} \cup {Eof, Close}

(* the transport delivers one more event on the channel *)
Deliver(id, ev) ==
    /\ ~closed[id]
    /\ Delivered < MaxEvents
    /\ chan' = [chan EXCEPT ![id] = Append(@, ev)]
    /\ UNCHANGED <<svars, closed, rd, running, sink>>

(* the channel's sender is dropped: wait() returns None once drained *)
CloseStream(id) ==
    /\ ~closed[id]
    /\ closed' = [closed EXCEPT ![id] = TRUE]
    /\ UNCHANGED <<svars, chan, rd, running, sink>>

Run(id, next, oks) ==
    LET it == Iteration(id, next)
    IN  /\ Len(oks) = Len(it.emit)
        /\ sink' = sink \o Emitted(id, it.emit, oks)
        /\ running' = [running EXCEPT ![id] = ~LoopEnds(it, oks)]
        /\ rd' = [rd EXCEPT ![id] = IF IsSome(next) THEN @ + 1 ELSE @]
        /\ UNCHANGED <<svars, chan, closed>>

OkSeqs == SeqsUpTo(BOOLEAN, 2)

(* channel.wait() returns Some(msg) *)
ReadMsg(id) ==
    /\ running[id]
    /\ rd[id] < Len(chan[id])
    /\ \E oks \in OkSeqs : Run(id, Some(chan[id][rd[id] + 1]), oks)

(* channel.wait() returns None *)
ReadNone(id) ==
    /\ running[id]
    /\ rd[id] = Len(chan[id])
    /\ closed[id]
    /\ \E oks \in OkSeqs : Run(id, None, oks)

NoReaders ==
    /\ chan = [id \in Ids |-> <<>>]
    /\ closed = [id \in Ids |-> TRUE]
    /\ rd = [id \in Ids |-> 0]
    /\ running = [id \in Ids |-> FALSE]
    /\ sink = <<>>

NoSession ==
    /\ config = [private_key |-> None, password |-> None]
    /\ decode_ok = FALSE
    /\ server = [connect |-> FALSE, publickey |-> "error", password |-> "error",
                 channel_open |-> FALSE, pty |-> FALSE, shell |-> FALSE]
    /\ caller = "establish_base_session_async"
    /\ pc = "done"
    /\ calls = <<>>
    /\ est_result = Pending
    /\ result = Pending

(* both loops spawned, nothing delivered yet *)
ReaderInit ==
    /\ NoSession
    /\ chan = [id \in Ids |-> <<>>]
    /\ closed = [id \in Ids |-> FALSE]
    /\ rd = [id \in Ids |-> 0]
    /\ running = [id \in Ids |-> TRUE]
    /\ sink = <<>>

ReaderNext ==
    \E id \in Ids :
        \/ \E ev \in Events : Deliver(id, ev)
        \/ CloseStream(id)
        \/ ReadMsg(id)
        \/ ReadNone(id)

ReaderSpec == ReaderInit /\ [][ReaderNext]_vars

(* tokio::spawn: a task whose wait() can return is polled again, so a     *)
(* loop that can take an event or see the end of its stream does so        *)
FairReaderNext ==
    \E id \in Ids :
        \/ \E ev \in {Data(<<97>>), Eof, Close} : Deliver(id, ev)
        \/ CloseStream(id)
        \/ ReadMsg(id)
        \/ ReadNone(id)

FairReaderSpec ==
    /\ ReaderInit
    /\ [][FairReaderNext]_vars
    /\ \A id \in Ids : WF_vars(ReadMsg(id)) /\ WF_vars(ReadNone(id))

--------------------------------------------------------------------------
(* One call, against every configuration and every server behaviour *)

KeyTexts == SeqsUpTo(KeyChars, MaxKeyLen)

Configs == [private_key : {None} \cup {Some(k) : k \in KeyTexts},
            password    : {None, Some("p")}]

Servers == [connect : BOOLEAN, publickey : AuthAnswers, password : AuthAnswers,
            channel_open : BOOLEAN, pty : BOOLEAN, shell : BOOLEAN]

SessionInit ==
    /\ config \in Configs
    /\ decode_ok \in BOOLEAN
    /\ server \in Servers
    /\ caller \in Callers
    /\ pc = "connect"
    /\ calls = <<>>
    /\ est_result = Pending
    /\ result = Pending
    /\ NoReaders

SessionNext ==
    \/ Connect
    \/ KeySkipped
    \/ DecodeKey
    \/ PublickeyRequest
    \/ PublickeyResponse
    \/ PasswordSkipped
    \/ PasswordRequest
    \/ PasswordResponse
    \/ EstablishReturned
    \/ ChannelOpen
    \/ RequestPty
    \/ RequestShell

SessionSpec == SessionInit /\ [][SessionNext]_vars

--------------------------------------------------------------------------
(* Vocabulary of the properties *)

Count(req) == Cardinality(Requests(req))
Accepted(req) == \E i \in Requests(req) : calls[i].ans = "accepted"
EstablishReturnedYet == est_result.status # "Pending"
ConnectionOpen == \E i \in Requests("connect") : calls[i].ans = "ok"

AllWhitespace(s) == \A i \in 1..Len(s) : s[i] = " "
KeyAbsent  == config.private_key = None
KeyBlank   == ~KeyAbsent /\ AllWhitespace(config.private_key[1])
KeyNonBlank == ~KeyAbsent /\ ~AllWhitespace(config.private_key[1])
PasswordPresent == config.password # None

ChannelRequests == {"channel_open_session", "request_pty", "request_shell"}
NoChannelRequest == \A i \in 1..Len(calls) : calls[i].req \notin ChannelRequests

RECURSIVE FirstEof(_)
FirstEof(evs) ==
    IF evs = <<>> THEN 0
    ELSE IF evs[Len(evs)].kind = "Eof" /\ FirstEof(SubSeq(evs, 1, Len(evs) - 1)) = 0
    THEN Len(evs)
    ELSE FirstEof(SubSeq(evs, 1, Len(evs) - 1))

IsData(ev) == ev.kind = "Data"

(* the Data notifications of a list of events, for loop id *)
DataNotes(id, evs) ==
    LET ds == SelectSeq(evs, IsData)
    IN  [i \in 1..Len(ds) |->
            [name |-> <<"term-data-", id>>, payload |-> <<from_utf8_lossy(ds[i].data)>>]]

ExitNote(id) == [name |-> <<"term-exit-", id>>, payload |-> <<>>]

Note(e) == [name |-> e.name, payload |-> e.payload]
Notes(es) == [i \in 1..Len(es) |-> Note(es[i])]

(* the emit calls loop id has made, oldest first *)
IsBy(id, e) == e.by = id
EmittedBy(id) == LET By(e) == IsBy(id, e) IN Notes(SelectSeq(sink, By))

(* the notifications in the sink whose event name carries id *)
TaggedWith(id) == LET Tagged(e) == e.name[2] = id IN Notes(SelectSeq(sink, Tagged))

Consumed(id) == SubSeq(chan[id], 1, rd[id])

--------------------------------------------------------------------------
(* C1: on a channel whose events contain an Eof, the loop emits one Data   *)
(* notification per Data event before the first Eof, in the order          *)
(* received, then exactly one Exit and nothing more; it takes no event     *)
(* after the first Eof.                                                    *)
C1_EofEndsLoopAfterForwardingData ==
    \A id \in Ids :
        LET e == FirstEof(chan[id])
        IN  e > 0 =>
              /\ rd[id] <= e
              /\ running[id] <=> rd[id] < e
              /\ running[id] => EmittedBy(id) = DataNotes(id, Consumed(id))
              /\ ~running[id] =>
                    EmittedBy(id) =
                        DataNotes(id, SubSeq(chan[id], 1, e - 1)) \o <<ExitNote(id)>>

(* a loop that forwarded a Data event, stopped at Eof with its Exit, and   *)
(* left an event delivered after the Eof untouched                         *)
C1_Witness ==
    \E id \in Ids :
        /\ ~running[id]
        /\ FirstEof(chan[id]) = 2
        /\ Len(chan[id]) = 3
        /\ chan[id][1].kind = "Data"
        /\ chan[id][3].kind = "Data"
        /\ Len(EmittedBy(id)) = 2

(* C2: on a channel closed without any Eof, the loop emits one Data        *)
(* notification per Data event in received order and then exactly one      *)
(* Exit; none before the source is exhausted.                              *)
C2_ExhaustionEmitsOneExit ==
    \A id \in Ids :
        FirstEof(chan[id]) = 0 =>
            /\ ~running[id] => closed[id] /\ rd[id] = Len(chan[id])
            /\ EmittedBy(id) =
                  DataNotes(id, Consumed(id))
                      \o (IF running[id] THEN <<>> ELSE <<ExitNote(id)>>)

C2_Witness ==
    \E id \in Ids :
        /\ ~running[id]
        /\ FirstEof(chan[id]) = 0
        /\ Len(SelectSeq(chan[id], IsData)) = 2
        /\ chan[id][1] # chan[id][2]
        /\ Len(EmittedBy(id)) = 3

(* the loop run on its own over events evs: what it has emitted once it    *)
(* has taken them all, and, when ended, has also left the loop             *)
RECURSIVE RunAlone(_, _, _)
RunAlone(id, evs, ended) ==
    IF evs = <<>> THEN (IF ended THEN <<ExitNote(id)>> ELSE <<>>)
    ELSE CASE Head(evs).kind = "Data" ->
                <<[name |-> <<"term-data-", id>>,
                   payload |-> <<from_utf8_lossy(Head(evs).data)>>]>>
                    \o RunAlone(id, Tail(evs), ended)
           [] Head(evs).kind = "Eof" -> <<ExitNote(id)>>
           [] OTHER -> RunAlone(id, Tail(evs), ended)

(* C8: with loops A and B running concurrently, under every interleaving   *)
(* the notifications tagged with an id are, in order, what that id's loop  *)
(* emits running alone over the events it has taken.                       *)
C8_PerIdOrderUnderInterleaving ==
    \A id \in Ids : TaggedWith(id) = RunAlone(id, Consumed(id), ~running[id])

(* both loops have ended and their notifications are interleaved A, B, A *)
C8_Witness ==
    /\ \A id \in Ids : ~running[id]
    /\ \E i, j, k \in 1..Len(sink) :
          /\ i < j /\ j < k
          /\ sink[i].by = "A" /\ sink[j].by = "B" /\ sink[k].by = "A"
          /\ sink[i].payload # sink[k].payload
          /\ sink[k].payload # <<>>

--------------------------------------------------------------------------
(* C3: on an open connection, a private key that is present, non-blank and *)
(* does not parse makes establish fail with InvalidKey, and neither a      *)
(* public-key nor a password authentication request is sent - also when    *)
(* the config holds a password the server would accept.                    *)
C3_ParseFailureIsInvalidKeyWithoutAuth ==
    (ConnectionOpen /\ KeyNonBlank /\ ~decode_ok) =>
        /\ Count("authenticate_publickey") = 0
        /\ Count("authenticate_password") = 0
        /\ pc # "key" => est_result = InvalidKey

C3_Witness ==
    /\ est_result = InvalidKey
    /\ pc = "done"
    /\ PasswordPresent
    /\ server.password = "accepted"
    /\ Count("decode_secret_key") = 1

(* C4 as stated: with a key that is invalid or blank and a password the    *)
(* server accepts, establish (on an open connection) succeeds, through     *)
(* password authentication.                                                *)
C4_InvalidOrBlankKeyFallsBackToPassword ==
    (/\ EstablishReturnedYet
     /\ ConnectionOpen
     /\ KeyBlank \/ (KeyNonBlank /\ ~decode_ok)
     /\ PasswordPresent
     /\ server.password = "accepted")
    => est_result = Ok /\ Accepted("authenticate_password")

(* C4 amended: with a key that is blank (empty or whitespace-only) and a   *)
(* password the server accepts, establish on an open connection succeeds   *)
(* through password authentication, the key being neither parsed nor       *)
(* offered; with a non-blank key that does not parse it fails with         *)
(* InvalidKey and the password is not tried.                               *)
C4_BlankKeyFallsBackToPassword ==
    (EstablishReturnedYet /\ ConnectionOpen /\ PasswordPresent
        /\ server.password = "accepted") =>
        /\ KeyBlank =>
              /\ est_result = Ok
              /\ Accepted("authenticate_password")
              /\ Count("decode_secret_key") = 0
              /\ Count("authenticate_publickey") = 0
        /\ (KeyNonBlank /\ ~decode_ok) =>
              /\ est_result = InvalidKey
              /\ Count("authenticate_password") = 0

(* a whitespace-only key, skipped, and the password accepted *)
C4_Witness ==
    /\ est_result = Ok
    /\ KeyBlank
    /\ Len(config.private_key[1]) > 0
    /\ Accepted("authenticate_password")

(* no usable credential: the key is absent, blank or rejected by the       *)
(* server, and the password is absent or rejected by the server            *)
KeyUnusable ==
    \/ KeyAbsent
    \/ KeyBlank
    \/ KeyNonBlank /\ decode_ok /\ server.publickey = "rejected"
PasswordUnusable ==
    \/ ~PasswordPresent
    \/ server.password = "rejected"

(* C5: with neither credential usable, establish on an open connection     *)
(* fails with AuthFailed("Invalid credentials"), and create_shell_channel  *)
(* issues no channel-open, PTY or shell request.                           *)
C5_NoUsableCredentialIsAuthFailed ==
    (ConnectionOpen /\ KeyUnusable /\ PasswordUnusable) =>
        /\ EstablishReturnedYet =>
              est_result = Err("Auth failed: ", "Invalid credentials")
        /\ NoChannelRequest
        /\ (pc = "done" /\ caller = "create_shell_channel") =>
              result = Err("Auth failed: ", "Invalid credentials")

(* create_shell_channel has returned after the server rejected both the    *)
(* key and the password                                                    *)
C5_Witness ==
    /\ pc = "done"
    /\ caller = "create_shell_channel"
    /\ KeyNonBlank /\ decode_ok /\ server.publickey = "rejected"
    /\ PasswordPresent /\ server.password = "rejected"
    /\ Count("authenticate_publickey") = 1
    /\ Count("authenticate_password") = 1
    /\ result.status = "Err"

(* C6: each authentication step is tried at most once and the steps are    *)
(* sequential; when the key parses, the server rejects it and a password   *)
(* is present, the password is tried exactly once, only after the          *)
(* public-key attempt was answered, and its answer decides the result.     *)
C6_AuthStepsSequentialOnceEach ==
    /\ Count("authenticate_publickey") <= 1
    /\ Count("authenticate_password") <= 1
    /\ \A i \in Requests("authenticate_password") :
           \A j \in Requests("authenticate_publickey") :
               j < i /\ calls[j].ans # "pending"
    /\ (/\ ConnectionOpen /\ KeyNonBlank /\ decode_ok
        /\ server.publickey = "rejected" /\ PasswordPresent
        /\ EstablishReturnedYet) =>
           /\ Count("authenticate_publickey") = 1
           /\ Count("authenticate_password") = 1
           /\ Answer("authenticate_password") = server.password
           /\ server.password = "accepted" => est_result = Ok
           /\ server.password = "rejected" =>
                  est_result = Err("Auth failed: ", "Invalid credentials")
           /\ server.password = "error" => est_result = Err("", "russh::Error")

(* the key was rejected and the password then accepted *)
C6_Witness ==
    /\ EstablishReturnedYet
    /\ Count("authenticate_publickey") = 1
    /\ Answer("authenticate_publickey") = "rejected"
    /\ Count("authenticate_password") = 1
    /\ Answer("authenticate_password") = "accepted"
    /\ est_result = Ok

Index(req) == CHOOSE i \in Requests(req) : TRUE
Succeeded(req) == \E i \in Requests(req) : calls[i].ans = "ok"

(* C7: channel-open precedes the PTY request, which precedes the shell     *)
(* request; a failed step prevents the later ones; a channel is returned   *)
(* only after all three succeeded.                                         *)
C7_NegotiationOrderFixed ==
    /\ \A r \in ChannelRequests : Count(r) <= 1
    /\ Count("request_pty") = 1 =>
          /\ Succeeded("channel_open_session")
          /\ Index("channel_open_session") < Index("request_pty")
    /\ Count("request_shell") = 1 =>
          /\ Succeeded("request_pty")
          /\ Index("request_pty") < Index("request_shell")
    /\ (caller = "create_shell_channel" /\ result.status = "Ok") =>
          \A r \in ChannelRequests : Succeeded(r)

(* the PTY request failed after a successful channel-open *)
C7_Witness ==
    /\ pc = "done"
    /\ Succeeded("channel_open_session")
    /\ Count("request_pty") = 1
    /\ ~Succeeded("request_pty")
    /\ Count("request_shell") = 0
    /\ result.status = "Err"

(* C9: when opening the connection fails, establish fails at once with a   *)
(* ConnectionError: one connection attempt, no key parsed, no              *)
(* authentication request.                                                 *)
C9_ConnectFailureIsImmediate ==
    (pc # "connect" /\ ~server.connect) =>
        /\ est_result = Err("Connection Error: ", "russh::Error")
        /\ Len(calls) = 1
        /\ calls[1].req = "connect"

(* the connection failed for a config holding both a key and a password *)
C9_Witness ==
    /\ pc = "done"
    /\ ~server.connect
    /\ KeyNonBlank
    /\ PasswordPresent
    /\ est_result.status = "Err"

(* C10: establish returns a session only when the server answered          *)
(* 'accepted' to a public-key or password authentication of this call,     *)
(* and establish itself issues no channel-open request.                    *)
C10_SessionOnlyWhenServerAccepted ==
    /\ est_result.status = "Ok" =>
          /\ Accepted("authenticate_publickey") \/ Accepted("authenticate_password")
          /\ ConnectionOpen
    /\ \A i \in 1..Len(calls) :
          calls[i].by = "establish_base_session_async" =>
              calls[i].req \notin ChannelRequests
    /\ pc \in {"est_returned"} => NoChannelRequest

(* establish has just returned a session authenticated by public key *)
C10_Witness ==
    /\ pc = "est_returned"
    /\ est_result = Ok
    /\ Accepted("authenticate_publickey")
    /\ Count("authenticate_password") = 0

--------------------------------------------------------------------------
(* the kind of failure an error String names: its format! prefix *)
ErrorKind(r) ==
    CASE r.prefix = "Connection Error: "    -> "ConnectionError"
      [] r.prefix = "Invalid Private Key: " -> "InvalidKey"
      [] r.prefix = "Auth failed: "         -> "AuthFailed"
      [] r.prefix = "Channel Open Error: "  -> "ChannelOpenError"
      [] r.prefix = "PTY Request Error: "   -> "PtyRequestError"
      [] r.prefix = "Shell Request Error: " -> "ShellRequestError"
      [] OTHER -> "Unclassified"

Failed(req) == \E i \in Requests(req) : calls[i].ans = "error"

(* C11: a failed channel-open, PTY request and shell request are reported  *)
(* as ChannelOpenError, PtyRequestError and ShellRequestError, three       *)
(* different kinds; a failure of establish is returned unchanged.          *)
C11_NegotiationErrorsDistinct ==
    (caller = "create_shell_channel" /\ pc = "done") =>
        /\ Failed("channel_open_session") =>
              result.status = "Err" /\ ErrorKind(result) = "ChannelOpenError"
        /\ Failed("request_pty") =>
              result.status = "Err" /\ ErrorKind(result) = "PtyRequestError"
        /\ Failed("request_shell") =>
              result.status = "Err" /\ ErrorKind(result) = "ShellRequestError"
        /\ est_result.status = "Err" =>
              /\ result = est_result
              /\ ErrorKind(result) \notin
                    {"ChannelOpenError", "PtyRequestError", "ShellRequestError"}

(* the shell request failed after channel-open and PTY succeeded *)
C11_Witness ==
    /\ caller = "create_shell_channel"
    /\ pc = "done"
    /\ Succeeded("channel_open_session")
    /\ Succeeded("request_pty")
    /\ Failed("request_shell")
    /\ ErrorKind(result) = "ShellRequestError"

Auxiliary == {"create_monitor_session_async", "create_sftp_session_async"}

(* C12: create_monitor_session_async and create_sftp_session_async return  *)
(* a present session exactly when establish succeeded, the absent result   *)
(* for every failure of establish, and issue no channel request.           *)
C12_AuxiliaryConstructorsYesOrNo ==
    caller \in Auxiliary =>
        /\ NoChannelRequest
        /\ pc = "done" =>
              /\ est_result.status \in {"Ok", "Err"}
              /\ est_result.status = "Ok" => result = [status |-> "Ok", prefix |-> "", cause |-> ""]
              /\ est_result.status = "Err" =>
                    result = [status |-> "None", prefix |-> "", cause |-> ""]
        /\ pc # "done" => result.status = "Pending"

(* the monitor constructor returned absent for an authentication failure *)
C12_Witness ==
    /\ caller = "create_monitor_session_async"
    /\ pc = "done"
    /\ ErrorKind(est_result) = "AuthFailed"
    /\ result.status = "None"

--------------------------------------------------------------------------
CountOf(seq, Test(_)) == Len(SelectSeq(seq, Test))

(* C13: every notification a loop spawned with id X emits is named         *)
(* "term-data-X" with a text payload or "term-exit-X" with no payload,     *)
(* never with another id; an Eof produces no notification of its own.      *)
C13_NotificationNamesCarryOwnId ==
    /\ \A i \in 1..Len(sink) :
          \/ sink[i].name = <<"term-data-", sink[i].by>> /\ Len(sink[i].payload) = 1
          \/ sink[i].name = <<"term-exit-", sink[i].by>> /\ sink[i].payload = <<>>
    /\ \A id \in Ids :
          Len(EmittedBy(id)) =
              CountOf(Consumed(id), IsData) + (IF running[id] THEN 0 ELSE 1)

(* both loops have emitted, one of them a Data and, on Eof, its Exit *)
C13_Witness ==
    /\ \A id \in Ids : EmittedBy(id) # <<>>
    /\ \E id \in Ids :
          /\ ~running[id]
          /\ rd[id] = 2
          /\ chan[id][2].kind = "Eof"
          /\ Len(EmittedBy(id)) = 2
          /\ EmittedBy(id)[1].name[1] = "term-data-"

(* UTF-8 over one- and two-byte forms, stated apart from the decoder:      *)
(* the length of the well-formed sequence a byte string starts with        *)
WellFormedLen(bytes) ==
    IF bytes[1] < 128 THEN 1
    ELSE IF bytes[1] >= 194 /\ bytes[1] <= 223 /\ Len(bytes) >= 2
            /\ bytes[2] >= 128 /\ bytes[2] <= 191
    THEN 2
    ELSE 0

(* the bytes that belong to well-formed sequences *)
RECURSIVE WellFormedPart(_)
WellFormedPart(bytes) ==
    IF bytes = <<>> THEN <<>>
    ELSE LET n == WellFormedLen(bytes)
         IN  IF n = 0 THEN WellFormedPart(Tail(bytes))
             ELSE SubSeq(bytes, 1, n) \o WellFormedPart(SubSeq(bytes, n + 1, Len(bytes)))

(* the UTF-8 encoding of a text of code points below U+0800 *)
RECURSIVE Utf8(_)
Utf8(text) ==
    IF text = <<>> THEN <<>>
    ELSE IF Head(text) < 128 THEN <<Head(text)>> \o Utf8(Tail(text))
    ELSE <<192 + (Head(text) \div 64), 128 + (Head(text) % 64)>> \o Utf8(Tail(text))

IsReplacement(c) == c = 65533
IsNotReplacement(c) == c # 65533

Malformed(ev) == ev.kind = "Data" /\ WellFormedPart(ev.data) # ev.data

(* the notification loop id emitted for the k-th event it took, a Data *)
NoteFor(id, k) == EmittedBy(id)[CountOf(SubSeq(chan[id], 1, k), IsData)]

(* C14: a Data event with invalid UTF-8 does not end the loop: it yields   *)
(* one Data notification whose text has one replacement character for      *)
(* each invalid byte and the well-formed bytes decoded, and the loop goes  *)
(* on to the following events.                                             *)
C14_InvalidUtf8IsReplacedNotFatal ==
    \A id \in Ids :
        /\ \A k \in 1..rd[id] :
              Malformed(chan[id][k]) =>
                  LET n == NoteFor(id, k)
                      text == n.payload[1]
                      bytes == chan[id][k].data
                  IN  /\ n.name = <<"term-data-", id>>
                      /\ Utf8(SelectSeq(text, IsNotReplacement)) = WellFormedPart(bytes)
                      /\ CountOf(text, IsReplacement)
                            = Len(bytes) - Len(WellFormedPart(bytes))
        /\ Len(EmittedBy(id)) >= CountOf(Consumed(id), IsData)
        /\ (~running[id] /\ rd[id] > 0 /\ Malformed(chan[id][rd[id]])) =>
              closed[id] /\ rd[id] = Len(chan[id])

(* a loop forwarded a malformed payload and then the Data after it *)
C14_Witness ==
    \E id \in Ids :
        /\ rd[id] = 2
        /\ Malformed(chan[id][1])
        /\ chan[id][2].kind = "Data"
        /\ Len(EmittedBy(id)) = 2
        /\ EmittedBy(id)[1].payload = << <<233, 65533>> >>
        /\ EmittedBy(id)[2].payload = << <<97>> >>
        /\ running[id]

--------------------------------------------------------------------------
EstablishKinds == {"ConnectionError", "InvalidKey", "AuthFailed"}
NegotiationKinds == {"ChannelOpenError", "PtyRequestError", "ShellRequestError"}

(* C15: every error establish returns is a ConnectionError, InvalidKey or  *)
(* AuthFailed, and every error of create_shell_channel is one of those or  *)
(* a ChannelOpenError, PtyRequestError or ShellRequestError - also an      *)
(* error the transport raises during an authentication round-trip.         *)
C15_EveryErrorIsClassified ==
    /\ est_result.status = "Err" => ErrorKind(est_result) \in EstablishKinds
    /\ (caller = "create_shell_channel" /\ result.status = "Err") =>
          ErrorKind(result) \in EstablishKinds \cup NegotiationKinds

(* C16: when the key is present, non-blank, parses and the server accepts  *)
(* it, establish returns the session on that answer and sends no password  *)
(* authentication request, whether or not the config holds a password.     *)
C16_KeySuccessShortCircuits ==
    (ConnectionOpen /\ KeyNonBlank /\ decode_ok /\ server.publickey = "accepted") =>
        /\ Count("authenticate_password") = 0
        /\ pc \notin {"password", "await_password"}
        /\ Accepted("authenticate_publickey") =>
              est_result = [status |-> "Ok", prefix |-> "", cause |-> ""]

(* the key was accepted for a config that also holds a password *)
C16_Witness ==
    /\ pc = "done"
    /\ est_result.status = "Ok"
    /\ Accepted("authenticate_publickey")
    /\ PasswordPresent
    /\ server.password = "accepted"
    /\ Count("authenticate_password") = 0

(* C20: when the key parses and the public-key round-trip ends in a        *)
(* transport error, establish returns that error on that answer and does   *)
(* not try the password, also when the server would accept it.             *)
C20_PublickeyTransportErrorIsFinal ==
    (ConnectionOpen /\ KeyNonBlank /\ decode_ok /\ server.publickey = "error") =>
        /\ Count("authenticate_password") = 0
        /\ pc \notin {"password", "await_password"}
        /\ Failed("authenticate_publickey") =>
              est_result = [status |-> "Err", prefix |-> "", cause |-> "russh::Error"]

(* the public-key round-trip failed for a config whose password the        *)
(* server would accept                                                     *)
C20_Witness ==
    /\ pc = "done"
    /\ Failed("authenticate_publickey")
    /\ PasswordPresent
    /\ server.password = "accepted"
    /\ est_result.status = "Err"
    /\ result.status \in {"Err", "None"}

--------------------------------------------------------------------------
(* loop id takes its next event in this step *)
Takes(id) == rd'[id] = rd[id] + 1
NextEvent(id) == chan[id][rd[id] + 1]
SawClose(id) == \E k \in 1..rd[id] : chan[id][k].kind = "Close"

(* C17: an event that is neither Data nor Eof produces no notification and *)
(* does not end the loop; a Data event taken after one is forwarded; the   *)
(* loop ends only on Eof or when its event source is exhausted.            *)
C17_OtherEventsChangeNothing ==
    [][\A id \in Ids :
          /\ (Takes(id) /\ NextEvent(id).kind \notin {"Data", "Eof"}) =>
                /\ sink' = sink
                /\ running'[id] = running[id]
                /\ running[id]
          /\ (Takes(id) /\ SawClose(id) /\ NextEvent(id).kind = "Data") =>
                /\ Len(sink') = Len(sink) + 1
                /\ sink'[Len(sink')].name = <<"term-data-", id>>
                /\ sink'[Len(sink')].payload = <<from_utf8_lossy(NextEvent(id).data)>>
                /\ running'[id]
          /\ (running[id] /\ ~running'[id]) =>
                IF Takes(id) THEN NextEvent(id).kind = "Eof"
                ELSE closed[id] /\ rd[id] = Len(chan[id])
    ]_vars

(* a loop took a Close, then forwarded the Data after it and runs on *)
C17_Witness ==
    \E id \in Ids :
        /\ rd[id] = 2
        /\ chan[id][1].kind = "Close"
        /\ chan[id][2].kind = "Data"
        /\ running[id]
        /\ Len(EmittedBy(id)) = 1
        /\ EmittedBy(id)[1].name = <<"term-data-", id>>

StreamEnded(id) == FirstEof(chan[id]) > 0 \/ closed[id]
ExitEmitted(id) ==
    \E i \in 1..Len(sink) :
        sink[i].by = id /\ sink[i].name = <<"term-exit-", id>>

(* C18: under fair scheduling of the loop's task, a loop whose channel has *)
(* delivered an Eof or whose event source was closed eventually emits its  *)
(* Exit and stops.                                                         *)
C18_EndedStreamLeadsToExit ==
    \A id \in Ids : StreamEnded(id) ~> (~running[id] /\ ExitEmitted(id))

(* a loop has stopped with its Exit after its source was closed with an    *)
(* event still to take                                                     *)
C18_Witness ==
    \E id \in Ids :
        /\ ~running[id]
        /\ FirstEof(chan[id]) = 0
        /\ Len(chan[id]) > 0
        /\ closed[id]
        /\ ExitEmitted(id)

IsDataEmit(e) == e.name[1] = "term-data-"
IsExitEmit(e) == e.name[1] = "term-exit-"
EmitsBy(id) == LET By(e) == e.by = id IN SelectSeq(sink, By)

(* C19: a sink that refuses a notification changes nothing for the loop:   *)
(* after a failed Data emit the loop runs on with the next event, the      *)
(* emit is not repeated, and Exit is attempted exactly once at the end.    *)
C19_EmitFailureIsDropped ==
    /\ [](\A id \in Ids :
            /\ LET ds == SelectSeq(EmitsBy(id), IsDataEmit)
                   evs == SelectSeq(Consumed(id), IsData)
               IN  /\ Len(ds) = Len(evs)
                   /\ \A k \in 1..Len(ds) :
                         ds[k].payload = <<from_utf8_lossy(evs[k].data)>>
            /\ CountOf(EmitsBy(id), IsExitEmit) = (IF running[id] THEN 0 ELSE 1))
    /\ [][\A id \in Ids :
            (/\ Len(sink') = Len(sink) + 1
             /\ sink'[Len(sink')].by = id
             /\ IsDataEmit(sink'[Len(sink')])
             /\ ~sink'[Len(sink')].ok) =>
                /\ running'[id]
                /\ Takes(id)
         ]_vars

(* a refused Data emit, then the next Data emitted and taken by the sink,  *)
(* then the Exit                                                           *)
C19_Witness ==
    \E id \in Ids :
        LET es == EmitsBy(id)
        IN  /\ Len(es) = 3
            /\ IsDataEmit(es[1]) /\ ~es[1].ok
            /\ IsDataEmit(es[2]) /\ es[2].ok
            /\ es[1].payload # es[2].payload
            /\ IsExitEmit(es[3])
            /\ ~running[id]

=============================================================================
